---- MODULE Spec2Model ----
(***************************************************************************)
(* Conway's Game of Life with an editor (src/src/conway.rs): the board     *)
(* engine (count_neighbors, update_board_state, clear_new_board), the      *)
(* input latch (CustomInput::update) and the interaction tick              *)
(* (Game::interact), as one state machine driven by the host's event loop. *)
(*                                                                         *)
(* The window and the cell size are scaled down from 1024 and 10 pixels to *)
(* 7 and 2 pixels: the board is 3 x 3 cells and, as in the source, the     *)
(* window is not a whole number of cells wide (1024 = 102 * 10 + 4,        *)
(* 7 = 3 * 2 + 1).  Spec is the program under the events of the host; the   *)
(* board engine alone, started on any board, is SpecEngine.                *)
(***************************************************************************)
EXTENDS Integers, Sequences, FiniteSets

\* ---------------------------------------------------------------- constants
WINDOW_SIZE_X == 7
WINDOW_SIZE_Y == WINDOW_SIZE_X
CELL_SIZE == 2
CELL_COUNT_X == WINDOW_SIZE_X \div CELL_SIZE
CELL_COUNT_Y == WINDOW_SIZE_Y \div CELL_SIZE

\* Width of usize in bits (the smallest pointer width Rust supports; any width
\* with 2^USIZE_BITS > CELL_COUNT_X behaves alike).
USIZE_BITS == 16
\* Most cursor points the queue holds before the host runs an interaction tick.
MaxPoints == 2

RECURSIVE Pow2(_)
Pow2(n) == IF n = 0 THEN 1 ELSE 2 * Pow2(n - 1)
USIZE_MODULUS == Pow2(USIZE_BITS)

\* `v as usize` for an isize v: two's complement reinterpretation.
AsUsizeTorus(v) == v % CELL_COUNT_X
AsUsize(v) == v % USIZE_MODULUS

KERNEL ==
    << <<-1, -1>>, <<0, -1>>, <<1, -1>>,
       <<-1, 0>>, <<1, 0>>,
       <<-1, 1>>, <<0, 1>>, <<1, 1>> >>

\* enum Cell, by discriminant (the byte clear_new_board writes is 0).
Dead == 0
Alive == 1
Cell == {Dead, Alive}

\* enum Mode / enum EditorMode
Simulation == <<"Simulation">>
Editor(sub) == <<"Editor", sub>>
EditorMode == {"Drawing", "Moving"}
Mode == {Simulation} \cup {Editor(s) : s \in EditorMode}
IsEditor(m) == m[1] = "Editor"

InputAction == {"PlaceAlive", "PlaceDead", "Pause", "None"}

Xs == 0 .. (CELL_COUNT_X - 1)
Ys == 0 .. (CELL_COUNT_Y - 1)
\* type Board = Vec<Vec<Cell>>, indexed [y][x]
Board == [Ys -> [Xs -> Cell]]
BoardOf(c) == [y \in Ys |-> [x \in Xs |-> c]]

\* coffee::graphics::Point
Point(px, py) == [x |-> px, y |-> py]
\* The cursor positions the host reports, all inside the window: pixels of the
\* three cells of the middle row (two of them in the same cell), one pixel in
\* the strip right of the last cell column and one in the strip below the last
\* cell row.
CursorPoints ==
    {Point(1, 3), Point(2, 2), Point(3, 3), Point(5, 2), Point(6, 3), Point(3, 6)}

VARIABLES
    current_board,  \* Conway.current_board
    new_board,      \* Conway.new_board
    mode,           \* Conway.mode
    input,          \* CustomInput: [mode, mouse_points, action]
    panicked,       \* the process died on an index out of bounds
    op              \* the operation that produced this state: "new", "event"
                    \* (CustomInput::update), "interact" or "update"

vars == <<current_board, new_board, mode, input, panicked, op>>

\* ------------------------------------------------------------ board engine
out_of_bounds(x, y) == x >= CELL_COUNT_X \/ y >= CELL_COUNT_Y

RECURSIVE CountKernel(_, _, _, _)
CountKernel(board, x, y, k) ==
    IF k = 0 THEN 0
    ELSE LET nx == AsUsize(x + KERNEL[k][1])
             ny == AsUsize(y + KERNEL[k][2])
             n == CountKernel(board, x, y, k - 1)
         IN  IF out_of_bounds(nx, ny) THEN n
             ELSE IF board[ny][nx] = Alive THEN n + 1 ELSE n

count_neighbors(board, x, y) == CountKernel(board, x, y, Len(KERNEL))

\* the match of update_board_state
NewCellSurvivesOnTwo(cell, n) == IF cell = Alive /\ n = 2 THEN Alive ELSE
                                 IF cell = Dead /\ n = 3 THEN Alive ELSE Dead
NewCellNoBirth(cell, n) == IF cell = Alive /\ (n = 2 \/ n = 3) THEN Alive ELSE Dead
NewCell(cell, n) ==
    IF cell = Alive /\ n < 2 THEN Dead
    ELSE IF cell = Alive /\ (n = 2 \/ n = 3) THEN Alive
    ELSE IF cell = Alive /\ n > 3 THEN Dead
    ELSE IF cell = Dead /\ n = 3 THEN Alive
    ELSE Dead

\* One iteration of the loop body on the pair of boards b = [cur, new].
VisitCellInPlace(b, x, y) ==
    LET c == NewCell(b.cur[y][x], count_neighbors(b.cur, x, y))
    IN  [cur |-> [b.cur EXCEPT ![y][x] = c], new |-> [b.new EXCEPT ![y][x] = c]]
VisitCell(b, x, y) ==
    [b EXCEPT !.new[y][x] = NewCell(b.cur[y][x], count_neighbors(b.cur, x, y))]

\* The first k iterations, rows outermost.
RECURSIVE VisitCells(_, _)
VisitCells(b, k) ==
    IF k = 0 THEN b
    ELSE VisitCell(VisitCells(b, k - 1), (k - 1) % CELL_COUNT_X, (k - 1) \div CELL_COUNT_X)

\* ptr::write_bytes(row_ptr, 0, CELL_COUNT_X) on every row
clear_new_board_skip(b) == b
clear_new_board(b) == [b EXCEPT !.new = [y \in Ys |-> [x \in Xs |-> 0]]]

swap(b) == [cur |-> b.new, new |-> b.cur]

update_board_state(b) ==
    clear_new_board(swap(VisitCells(b, CELL_COUNT_X * CELL_COUNT_Y)))

\* --------------------------------------------------------- mode controller
toggle_mode_keeps_submode(m) == IF IsEditor(m) THEN Simulation ELSE Editor("Moving")
toggle_mode(m) == IF IsEditor(m) THEN Simulation ELSE Editor("Drawing")

\* (p.x / CELL_SIZE as f32) as usize
CellCoord(px) == px \div CELL_SIZE

Front(s) == SubSeq(s, 1, Len(s) - 1)
Last(s) == s[Len(s)]

\* The `while let Some(p) = input.mouse_points.pop()` loop of interact on
\* s = [board, mode, points, panicked, toggles]; an index out of range panics;
\* toggles counts the calls of toggle_mode.
RECURSIVE DrainPoints(_, _)
DrainPoints(s, act) ==
    IF s.points = <<>> THEN s
    ELSE LET p == Last(s.points)
             popped == [s EXCEPT !.points = Front(s.points)]
             x == CellCoord(p.x)
             y == CellCoord(p.y)
         IN  IF act \in {"PlaceAlive", "PlaceDead"}
             THEN IF y >= CELL_COUNT_Y \/ x >= CELL_COUNT_X
                  THEN [popped EXCEPT !.panicked = TRUE]
                  ELSE DrainPoints(
                         [popped EXCEPT !.board[y][x] =
                             IF act = "PlaceAlive" THEN Alive ELSE Dead], act)
             ELSE IF act = "Pause"
             THEN DrainPoints([popped EXCEPT !.mode = toggle_mode(s.mode),
                                             !.toggles = @ + 1], act)
             ELSE DrainPoints(popped, act)

\* ------------------------------------------------------------------- state
Init ==
    /\ current_board = BoardOf(Dead)
    /\ new_board = BoardOf(Dead)
    /\ mode = Editor("Drawing")
    /\ input = [mode |-> Editor("Drawing"), mouse_points |-> <<>>, action |-> "None"]
    /\ panicked = FALSE
    /\ op = "new"

\* mouse::Event::CursorMoved { x, y } at point p on the input inp
cursor_moved_any_mode(inp, p) == [inp EXCEPT !.mouse_points = Append(@, p)]
cursor_moved(inp, p) ==
    IF inp.mode = Simulation THEN inp
    ELSE [inp EXCEPT !.mouse_points = Append(@, p)]

\* The queue of the model holds MaxPoints points at most: a cursor event that
\* would push one more is not delivered before the next interaction tick.
CursorMoved ==
    /\ ~panicked
    /\ \E p \in CursorPoints :
          /\ Len(cursor_moved(input, p).mouse_points) <= MaxPoints
          /\ input' = cursor_moved(input, p)
    /\ op' = "event"
    /\ UNCHANGED <<current_board, new_board, mode, panicked>>

LeftPressedSet(a) == "PlaceAlive"
LeftPressed(a) == IF a = "PlaceAlive" THEN "None" ELSE "PlaceAlive"
RightPressed(a) == IF a = "PlaceDead" THEN "None" ELSE "PlaceDead"

\* mouse::Event::Input { state: Pressed, button: Left }
MouseLeft ==
    /\ ~panicked
    /\ input' = [input EXCEPT !.action = LeftPressed(@)]
    /\ op' = "event"
    /\ UNCHANGED <<current_board, new_board, mode, panicked>>

\* mouse::Event::Input { state: Pressed, button: Right }
MouseRight ==
    /\ ~panicked
    /\ input' = [input EXCEPT !.action = RightPressed(@)]
    /\ op' = "event"
    /\ UNCHANGED <<current_board, new_board, mode, panicked>>

\* keyboard::Event::Input { key_code: P, state: Pressed }
KeyP ==
    /\ ~panicked
    /\ input' = [input EXCEPT !.action = "Pause"]
    /\ op' = "event"
    /\ UNCHANGED <<current_board, new_board, mode, panicked>>

\* Game::interact
InteractResultNoGate(board, m, inp) ==
    LET paused == inp.action = "Pause"
        mode1 == IF paused THEN toggle_mode(m) ELSE m
        s0 == [board |-> board, mode |-> mode1, points |-> inp.mouse_points,
               panicked |-> FALSE, toggles |-> IF paused THEN 1 ELSE 0]
        s1 == IF paused THEN s0 ELSE DrainPoints(s0, inp.action)
    IN  [board |-> s1.board, mode |-> s1.mode, panicked |-> s1.panicked,
         toggles |-> s1.toggles,
         input |-> [mode |-> IF paused THEN mode1 ELSE inp.mode,
                    mouse_points |-> s1.points,
                    action |-> IF paused THEN "None" ELSE inp.action]]
InteractResultNoReset(board, m, inp) ==
    LET paused == inp.action = "Pause"
        mode1 == IF paused THEN toggle_mode(m) ELSE m
        imode1 == IF paused THEN mode1 ELSE inp.mode
        s0 == [board |-> board, mode |-> mode1, points |-> inp.mouse_points,
               panicked |-> FALSE, toggles |-> IF paused THEN 1 ELSE 0]
        s1 == IF mode1 = Simulation THEN s0 ELSE DrainPoints(s0, inp.action)
    IN  [board |-> s1.board, mode |-> s1.mode, panicked |-> s1.panicked,
         toggles |-> s1.toggles,
         input |-> [mode |-> imode1, mouse_points |-> s1.points,
                    action |-> inp.action]]
InteractResultClearsAction(board, m, inp) ==
    LET paused == inp.action = "Pause"
        mode1 == IF paused THEN toggle_mode(m) ELSE m
        imode1 == IF paused THEN mode1 ELSE inp.mode
        s0 == [board |-> board, mode |-> mode1, points |-> inp.mouse_points,
               panicked |-> FALSE, toggles |-> IF paused THEN 1 ELSE 0]
        s1 == IF mode1 = Simulation THEN s0
              ELSE DrainPoints(s0, IF paused THEN "None" ELSE inp.action)
    IN  [board |-> s1.board, mode |-> s1.mode, panicked |-> s1.panicked,
         toggles |-> s1.toggles,
         input |-> [mode |-> imode1, mouse_points |-> s1.points, action |-> "None"]]
InteractResultNoModeCopy(board, m, inp) ==
    LET paused == inp.action = "Pause"
        act1 == IF paused THEN "None" ELSE inp.action
        mode1 == IF paused THEN toggle_mode(m) ELSE m
        s0 == [board |-> board, mode |-> mode1, points |-> inp.mouse_points,
               panicked |-> FALSE, toggles |-> IF paused THEN 1 ELSE 0]
        s1 == IF mode1 = Simulation THEN s0 ELSE DrainPoints(s0, act1)
    IN  [board |-> s1.board, mode |-> s1.mode, panicked |-> s1.panicked,
         toggles |-> s1.toggles,
         input |-> [mode |-> inp.mode, mouse_points |-> s1.points, action |-> act1]]
InteractResult(board, m, inp) ==
    LET paused == inp.action = "Pause"
        act1 == IF paused THEN "None" ELSE inp.action
        mode1 == IF paused THEN toggle_mode(m) ELSE m
        imode1 == IF paused THEN mode1 ELSE inp.mode
        s0 == [board |-> board, mode |-> mode1, points |-> inp.mouse_points,
               panicked |-> FALSE, toggles |-> IF paused THEN 1 ELSE 0]
        s1 == IF mode1 = Simulation THEN s0 ELSE DrainPoints(s0, act1)
    IN  [board |-> s1.board, mode |-> s1.mode, panicked |-> s1.panicked,
         toggles |-> s1.toggles,
         input |-> [mode |-> imode1, mouse_points |-> s1.points, action |-> act1]]

Interact ==
    /\ ~panicked
    /\ LET r == InteractResult(current_board, mode, input)
       IN  /\ current_board' = r.board
           /\ mode' = r.mode
           /\ input' = r.input
           /\ panicked' = r.panicked
    /\ op' = "interact"
    /\ UNCHANGED new_board

\* Game::update on the pair of boards b = [cur, new]
updateAlways(m, b) == update_board_state(b)
update(m, b) == IF IsEditor(m) THEN b ELSE update_board_state(b)

GameUpdate ==
    /\ ~panicked
    /\ LET b == update(mode, [cur |-> current_board, new |-> new_board])
       IN  /\ current_board' = b.cur
           /\ new_board' = b.new
    /\ op' = "update"
    /\ UNCHANGED <<mode, input, panicked>>

Next ==
    \/ CursorMoved
    \/ MouseLeft
    \/ MouseRight
    \/ KeyP
    \/ Interact
    \/ GameUpdate

Spec == Init /\ [][Next]_vars

\* The board engine on its own: any board, the simulation running.
InitEngine ==
    /\ current_board \in Board
    /\ new_board = BoardOf(Dead)
    /\ mode = Simulation
    /\ input = [mode |-> Simulation, mouse_points |-> <<>>, action |-> "None"]
    /\ panicked = FALSE
    /\ op = "new"

SpecEngine == InitEngine /\ [][GameUpdate]_vars

\* ------------------------------------------------------------------ claims
\* The rule of the game stated on sets: the positions adjacent to (x, y) that
\* lie on the board, and the generation that follows a board.
Adjacent(x, y) ==
    {q \in Xs \X Ys :
        /\ q # <<x, y>>
        /\ q[1] - x \in {-1, 0, 1}
        /\ q[2] - y \in {-1, 0, 1}}
AliveAround(board, x, y) ==
    Cardinality({q \in Adjacent(x, y) : board[q[2]][q[1]] = Alive})
NextGeneration(board) ==
    [y \in Ys |-> [x \in Xs |->
        LET n == AliveAround(board, x, y)
        IN  IF \/ (board[y][x] = Alive /\ n \in {2, 3})
               \/ (board[y][x] = Dead /\ n = 3)
            THEN Alive ELSE Dead]]
AliveCount(board) ==
    Cardinality({q \in Xs \X Ys : board[q[2]][q[1]] = Alive})

\* C1: one update_board_state call (a simulation tick in Simulation mode) makes
\* a cell Alive exactly when it was Alive with 2 or 3 Alive neighbours or Dead
\* with 3, all counted on the board before the call; every other cell is Dead.
C1_RuleFromSnapshot ==
    [][(op' = "update" /\ mode = Simulation)
          => current_board' = NextGeneration(current_board)]_vars
\* a generation has been computed in which the centre died of overpopulation
\* while other cells live on
C1_Witness ==
    /\ op = "update"
    /\ mode = Simulation
    /\ AliveCount(current_board) >= 3
    /\ current_board[1][1] = Dead

\* C2: count_neighbors(x, y) is the number of Alive cells among the adjacent
\* positions that lie on the board; positions off the board count for nothing
\* and never stand for a cell of the opposite edge; (0,0) counts at most 3.
C2_HardEdge ==
    /\ \A x \in Xs, y \in Ys :
          count_neighbors(current_board, x, y) = AliveAround(current_board, x, y)
    /\ count_neighbors(current_board, 0, 0) <= 3
\* every cell is Alive, the opposite edges included, and the corner counts 3
C2_Witness ==
    /\ current_board = BoardOf(Alive)
    /\ count_neighbors(current_board, 0, 0) = 3
    /\ count_neighbors(current_board, 1, 1) = 8

Placing == {"PlaceAlive", "PlaceDead"}
Placed(act) == IF act = "PlaceAlive" THEN Alive ELSE Dead
OnBoard(p) == CellCoord(p.x) \in Xs /\ CellCoord(p.y) \in Ys

\* C3: mode gating. An interact call in Simulation mode with PlaceAlive or
\* PlaceDead latched leaves every cell of current_board as it was, whatever
\* points are queued; in Editor mode every queued point the call processes
\* (pops from the queue) has its cell set to the placed state.
C3_ModeGating ==
    [][(op' = "interact" /\ input.action \in Placing) =>
          /\ mode = Simulation => current_board' = current_board
          /\ IsEditor(mode) =>
               \A i \in (Len(input'.mouse_points) + 1) .. Len(input.mouse_points) :
                   LET p == input.mouse_points[i]
                   IN  OnBoard(p) =>
                         current_board'[CellCoord(p.y)][CellCoord(p.x)]
                            = Placed(input.action)]_vars
\* an interact call ran in Simulation mode with PlaceAlive latched and a point
\* queued whose cell is still Dead
C3_Witness ==
    /\ op = "interact"
    /\ mode = Simulation
    /\ input.action = "PlaceAlive"
    /\ \E i \in DOMAIN input.mouse_points :
          LET p == input.mouse_points[i]
          IN  OnBoard(p) /\ current_board[CellCoord(p.y)][CellCoord(p.x)] = Dead

\* C4: with every cursor point inside the window, no interact call indexes the
\* board with x >= CELL_COUNT_X or y >= CELL_COUNT_Y.
C4_NoOutOfBoundsIndex == ~panicked

\* C5: the mode starts at Editor(Drawing) and changes only by the toggle of an
\* interact call that consumes Pause: Editor(_) to Simulation, Simulation to
\* Editor(Drawing); no other operation changes it.
C5_OnlyToggle ==
    /\ mode = Editor("Drawing")
    /\ [][mode' # mode =>
            /\ op' = "interact"
            /\ input.action = "Pause"
            /\ mode' = IF mode = Simulation THEN Editor("Drawing") ELSE Simulation]_vars
\* the editor is back after a simulation period (a cell of the top row can only
\* have been born in a generation)
C5_Witness ==
    /\ op = "interact"
    /\ mode = Editor("Drawing")
    /\ current_board[0][1] = Alive

\* C6: Pause is one-shot. The interact call that finds Pause latched toggles the
\* mode once and resets the action to None; an interact call that does not find
\* Pause latched leaves the mode alone; only the P key latches Pause.
C6_PauseOneShot ==
    [][/\ (op' = "interact" /\ input.action = "Pause") =>
            /\ mode' # mode
            /\ mode' \in {Simulation, Editor("Drawing")}
            /\ input'.action = "None"
       /\ (op' = "interact" /\ input.action # "Pause") => mode' = mode
       /\ (input'.action = "Pause" /\ input.action # "Pause") => KeyP]_vars
\* an interact call has consumed a Pause and started the simulation
C6_Witness ==
    /\ op = "interact"
    /\ mode = Simulation
    /\ input.action = "None"

\* C7: after every interact call that returns, in Editor and in Simulation mode
\* alike, the queue of cursor points is empty.
C7_QueueDrained ==
    (op = "interact" /\ ~panicked) => input.mouse_points = <<>>

\* C8: a primary press latches PlaceAlive unless PlaceAlive is latched, and
\* then clears the action to None; a secondary press does the same for
\* PlaceDead; so two primary presses in a row, from any action but PlaceAlive,
\* end in None.
C8_ToggleLatch ==
    [][/\ MouseLeft =>
            input'.action = IF input.action = "PlaceAlive" THEN "None" ELSE "PlaceAlive"
       /\ MouseRight =>
            input'.action = IF input.action = "PlaceDead" THEN "None" ELSE "PlaceDead"
       /\ input.action # "PlaceAlive" =>
            LeftPressed(LeftPressed(input.action)) = "None"]_vars
\* a press has cleared its own latch: in Editor mode an event that leaves no
\* action latched and no point queued can only be such a press
C8_Witness ==
    /\ op = "event"
    /\ input.action = "None"
    /\ input.mouse_points = <<>>
    /\ input.mode = Editor("Drawing")

\* C9: a simulation tick (Game::update) advances the board by one generation
\* in Simulation mode; in Editor mode it leaves current_board, new_board and
\* the mode as they were.
C9_SimulationTick ==
    [][op' = "update" =>
          /\ mode' = mode
          /\ IsEditor(mode) =>
               current_board' = current_board /\ new_board' = new_board
          /\ mode = Simulation =>
               current_board' = NextGeneration(current_board)]_vars
\* a tick came in Editor mode on a board with Alive cells
C9_Witness ==
    /\ op = "update"
    /\ IsEditor(mode)
    /\ AliveCount(current_board) > 0

\* C10: in the initial state and after every operation every cell of the
\* scratch board new_board is Dead.
C10_ScratchDead == \A y \in Ys, x \in Xs : new_board[y][x] = Dead
\* a generation has been computed from a board with Alive cells (cells are
\* Alive after it), and the scratch board is Dead again
C10_Witness ==
    /\ op = "update"
    /\ mode = Simulation
    /\ AliveCount(current_board) > 0
    /\ new_board = BoardOf(Dead)

Boards == [cur |-> current_board, new |-> new_board]

\* a 2 x 2 block of Alive cells with its top left corner at (x, y), all else Dead
BlockAt(x, y) ==
    [j \in Ys |-> [i \in Xs |->
        IF i \in {x, x + 1} /\ j \in {y, y + 1} THEN Alive ELSE Dead]]
IsBlock(board) ==
    \E x \in Xs, y \in Ys : x + 1 \in Xs /\ y + 1 \in Ys /\ board = BlockAt(x, y)

\* C11: a board whose only Alive cells form a 2 x 2 block is unchanged by
\* update_board_state.
C11_StillLife ==
    [][(op' = "update" /\ mode = Simulation /\ IsBlock(current_board))
          => current_board' = current_board]_vars
\* a generation has been computed and left a block
C11_Witness ==
    /\ op = "update"
    /\ IsBlock(current_board)
    /\ update_board_state(Boards).cur = current_board

\* the row of 3 Alive cells through (x, y) and the column of 3 through it
RowAt(x, y) ==
    [j \in Ys |-> [i \in Xs |->
        IF j = y /\ i \in {x - 1, x, x + 1} THEN Alive ELSE Dead]]
ColumnAt(x, y) ==
    [j \in Ys |-> [i \in Xs |->
        IF i = x /\ j \in {y - 1, y, y + 1} THEN Alive ELSE Dead]]
\* centres with the whole row and the whole column on the board
BlinkerCentres ==
    {q \in Xs \X Ys : {q[1] - 1, q[1] + 1} \subseteq Xs /\ {q[2] - 1, q[2] + 1} \subseteq Ys}

\* C12: a board whose only Alive cells are a horizontal row of 3 becomes, after
\* one generation, the vertical column of 3 through the same centre, and after
\* a second generation the horizontal row again.
C12_Blinker ==
    [][(op' = "update" /\ mode = Simulation) =>
          \A q \in BlinkerCentres :
             /\ current_board = RowAt(q[1], q[2]) =>
                   /\ current_board' = ColumnAt(q[1], q[2])
                   /\ update_board_state([cur |-> current_board', new |-> new_board']).cur
                         = current_board
             /\ current_board = ColumnAt(q[1], q[2]) =>
                   current_board' = RowAt(q[1], q[2])]_vars
\* a generation has turned the row into the column
C12_Witness ==
    /\ op = "update"
    /\ \E q \in BlinkerCentres :
          /\ current_board = ColumnAt(q[1], q[2])
          /\ update_board_state(Boards).cur = RowAt(q[1], q[2])

\* the board after an Editor interact call that sets the cells of all queued
\* points that have a cell
RECURSIVE SetCells(_, _, _)
SetCells(board, points, c) ==
    IF points = {} THEN board
    ELSE LET p == CHOOSE q \in points : TRUE
             rest == SetCells(board, points \ {p}, c)
         IN  IF OnBoard(p)
             THEN [rest EXCEPT ![CellCoord(p.y)][CellCoord(p.x)] = c]
             ELSE rest
Range(f) == {f[i] : i \in DOMAIN f}

\* C13: in Editor mode an interact call with PlaceAlive (PlaceDead) sets to
\* Alive (Dead) exactly the cells of the queued points and leaves every other
\* cell as it was; with None it leaves the whole board as it was.
C13_EditorWrites ==
    [][(op' = "interact" /\ IsEditor(mode)) =>
          /\ input.action \in Placing =>
               current_board' =
                  SetCells(current_board, Range(input.mouse_points), Placed(input.action))
          /\ input.action = "None" => current_board' = current_board]_vars

\* C14: one interact call calls toggle_mode at most once, whatever action is
\* latched and however many points are queued.
C14_OneToggle ==
    [][op' = "interact" =>
          /\ InteractResult(current_board, mode, input).toggles <= 1
          /\ mode' \in {mode, toggle_mode(mode)}
          /\ (mode' # mode) = (InteractResult(current_board, mode, input).toggles = 1)]_vars
\* P was pressed during the simulation with points still queued: the interact
\* call that follows runs the draining loop after its toggle, and toggles once
C14_Witness ==
    /\ op = "event"
    /\ mode = Simulation
    /\ input.action = "Pause"
    /\ Len(input.mouse_points) >= 2
    /\ InteractResult(current_board, mode, input).toggles = 1

\* C15: while update_board_state visits the cells, before the swap, the current
\* board is the board before the call, cell for cell: every write goes to the
\* scratch board.
C15_CommitAtSwap ==
    \A k \in 0 .. (CELL_COUNT_X * CELL_COUNT_Y) :
        VisitCells(Boards, k).cur = current_board
\* half way through a pass the scratch board already holds a born cell and the
\* current board is still the old generation
C15_Witness ==
    /\ current_board = RowAt(1, 1)
    /\ VisitCells(Boards, 5).new[0][1] = Alive
    /\ VisitCells(Boards, 5).new # update_board_state(Boards).cur
    /\ VisitCells(Boards, 5).cur = current_board

\* C16: in every reachable state the mode is Editor(Drawing) or Simulation.
C16_NeverMoving == mode \in {Editor("Drawing"), Simulation}
\* a tick in the editor after a simulation period
C16_Witness ==
    /\ op = "update"
    /\ mode = Editor("Drawing")
    /\ current_board[0][1] = Alive

\* C17 as claimed: a latched PlaceAlive or PlaceDead stays the action until a
\* mouse-button press changes it.
C17_UntilMousePress ==
    [][(input.action \in Placing /\ input'.action # input.action)
          => (MouseLeft \/ MouseRight)]_vars
\* C17 amended: a latched PlaceAlive or PlaceDead stays the action across
\* interact and update calls and cursor events; only a mouse-button press or a
\* press of the P key changes it.
C17_UntilPress ==
    [][(input.action \in Placing /\ input'.action # input.action)
          => (MouseLeft \/ MouseRight \/ KeyP)]_vars
\* an interact call has written a cell and the latch is still on
C17_Witness ==
    /\ op = "interact"
    /\ input.action = "PlaceAlive"
    /\ IsEditor(mode)
    /\ AliveCount(current_board) > 0

\* C18: CustomInput.mode equals Conway.mode in the initial state and after
\* every operation.
C18_ModesAgree == input.mode = mode
\* both copies have followed a toggle
C18_Witness ==
    /\ op = "interact"
    /\ mode = Simulation
    /\ input.mode = Simulation

\* C19: an interact call that toggles the mode writes no cell, in either
\* direction; the call that returns to the editor leaves no point queued, so
\* no point queued before the simulation period is written afterwards.
C19_ToggleWritesNothing ==
    [][(op' = "interact" /\ mode' # mode) =>
          /\ current_board' = current_board
          /\ IsEditor(mode') => input'.mouse_points = <<>>]_vars
\* P was pressed during the simulation while a point queued before it, whose
\* cell is Dead, is still in the queue: the interact call that follows returns
\* to the editor, empties the queue and leaves the board
C19_Witness ==
    /\ op = "event"
    /\ mode = Simulation
    /\ input.action = "Pause"
    /\ \E i \in DOMAIN input.mouse_points :
          LET p == input.mouse_points[i]
          IN  OnBoard(p) /\ current_board[CellCoord(p.y)][CellCoord(p.x)] = Dead
    /\ InteractResult(current_board, mode, input).board = current_board
    /\ InteractResult(current_board, mode, input).input.mouse_points = <<>>

\* C20: a CursorMoved event received while CustomInput.mode is Simulation
\* leaves the queue as it is, and no step taken while it is Simulation makes
\* the queue longer.
C20_NoGrowthInSimulation ==
    [][input.mode = Simulation =>
          /\ CursorMoved => input'.mouse_points = input.mouse_points
          /\ Len(input'.mouse_points) <= Len(input.mouse_points)]_vars
\* the simulation runs, a cursor event would be dropped, and the queue has room
C20_Witness ==
    /\ input.mode = Simulation
    /\ op = "update"
    /\ Len(input.mouse_points) < MaxPoints
    /\ \A p \in CursorPoints : cursor_moved(input, p) = input
====
